---- MODULE Spec2Model ----
(***************************************************************************)
(* Model of src/hand_velocities.rs: the CustomHandTrackingPlugin.          *)
(*                                                                         *)
(* The plugin registers four systems:                                      *)
(*   XrCreateSession : spawn_custom_hands                                  *)
(*   XrDestroySession: clean_up_custom_hands                               *)
(*   PreUpdate       : (locate_hands_with_vel, transfer_vels).chain()      *)
(*                       .run_if(session_running)                          *)
(* The ECS world is modelled as a map from entity ids to component         *)
(* records.  Vec3 / Quat values are tuples of integers; the scalar f32     *)
(* values of the source are abstracted to integers (no arithmetic is done  *)
(* on them by the code, they are only copied or zeroed).                   *)
(***************************************************************************)
EXTENDS Integers, Sequences, FiniteSets, TLC

\* ------------------------------------------------------------------ bounds
\* Number of bones per hand (the runtime's hand skeleton has 26).
NumBones == 2
\* Number of PreUpdate schedule runs explored.
MaxTicks == 2
\* Number of sessions created during one behaviour.
MaxSessions == 2

\* ------------------------------------------------------------------ values
Hands == {"left", "right"}
Bones == 1..NumBones
Generations == 1..MaxSessions
\* A bone entity is identified by its hand, its bone and the session whose
\* spawn_custom_hands created it; a tracker entity by its hand and session.
EntityIds == Hands \X Bones \X Generations
TrackerIds == Hands \X Generations

HandCode(h) == IF h = "left" THEN 1 ELSE 2

\* SpaceLocationFlags / SpaceVelocityFlags bits the code tests.
POSITION_VALID == "POSITION_VALID"
ORIENTATION_VALID == "ORIENTATION_VALID"
LINEAR_VALID == "LINEAR_VALID"
ANGULAR_VALID == "ANGULAR_VALID"
LocationFlagBits == {POSITION_VALID, ORIENTATION_VALID}
VelocityFlagBits == {LINEAR_VALID, ANGULAR_VALID}
FlagBits == LocationFlagBits \cup VelocityFlagBits

Vec3ZERO == <<0, 0, 0>>
QuatIDENTITY == <<0, 0, 0, 1>>

\* XrVelocity::default()
XrVelocityDefault == [linear |-> Vec3ZERO, angular |-> Vec3ZERO]

\* helper_traits::ToVec3::to_vec3 on an openxr Vector3f: component copy.
ToVec3(v) == <<v[1], v[2], v[3]>>

\* An absent physics velocity pair (no LinearVelocity / AngularVelocity).
NoPhys == [has |-> FALSE, linear |-> Vec3ZERO, angular |-> Vec3ZERO]

\* A despawned entity slot.
NoEntity ==
  [alive |-> FALSE, custom |-> FALSE, hand |-> "left", bone |-> 1, radius |-> 0,
   translation |-> Vec3ZERO, rotation |-> QuatIDENTITY,
   vel |-> XrVelocityDefault, phys |-> NoPhys]

\* A tracker entity that does not exist.
NoTracker == [present |-> FALSE, hand |-> "left", bones |-> << >>]

VARIABLES
  session,      \* "none" | "ready" | "running": the XR session state
  nsessions,    \* sessions created so far
  ticks,        \* PreUpdate runs so far
  pc,           \* position inside the frame
  pipelined,    \* whether the Pipelined resource exists
  frame_state,  \* OxrFrameState: predicted_display_time, predicted_display_period
  trackers,     \* the CustomHandTracker entities: hand and XrHandBoneEntities
  world,        \* the bone entities and their components
  pre,          \* world as it was when the current PreUpdate began
  result,       \* per tracker: outcome of this tick's locate_hand_joints_with_velocities
  queried,      \* per tracker: set of timestamps passed to the joint query this tick
  spawned       \* outcome of the last spawn_custom_hands run

vars == <<session, nsessions, ticks, pc, pipelined, frame_state, trackers,
          world, pre, result, queried, spawned>>

\* ------------------------------------------------------- the joint query
\* What the runtime reports for bone b of hand h at time t.  The values are
\* reported whatever the validity flags say (an invalid field holds data the
\* caller must not use), and differ per hand, bone and query time.
JointLocation(h, b, t, mask) ==
  [location_flags |-> mask \cap LocationFlagBits,
   pose |-> [position |-> <<t, b, HandCode(h)>>,
             orientation |-> <<b, HandCode(h), t, 1>>],
   radius |-> t + b]

JointVelocity(h, b, t, mask) ==
  [velocity_flags |-> mask \cap VelocityFlagBits,
   linear_velocity |-> <<t, HandCode(h), b>>,
   angular_velocity |-> <<HandCode(h), b, t>>]

NoMasks == [b \in Bones |-> {}]
NotQueried == [kind |-> "not_queried", masks |-> NoMasks]
\* Ok(None), Err(ERROR_EXTENSION_NOT_PRESENT), Err(other)
SkipKinds == {"none", "err_ext", "err_other"}
Skips == {[kind |-> k, masks |-> NoMasks] : k \in SkipKinds}
Samples(MaskFns) == {[kind |-> "ok", masks |-> m] : m \in MaskFns}

\* Flag patterns of the session specification: everything valid, and a mixed
\* pattern that alternates from bone to bone.
AllValid == [b \in Bones |-> FlagBits]
Mixed == [b \in Bones |-> IF b % 2 = 1 THEN {POSITION_VALID, LINEAR_VALID}
                                       ELSE {ORIENTATION_VALID, ANGULAR_VALID}]
SessionMasks == {AllValid, Mixed}
\* Every combination of the four flags, independently per bone.
AllMasks == [Bones -> SUBSET FlagBits]

\* ------------------------------------------- locate_hands_with_vel, pieces
\* The timestamp handed to locate_hand_joints_with_velocities.  Both terms
\* are i64 nanoseconds of the runtime's clock; the times of the model stay far
\* below the range where the sum could leave it.
\* (variant: the period is never added)
QueryTimeNoPeriod(fs, pipe) == fs.predicted_display_time
QueryTime(fs, pipe) ==
  IF pipe
    THEN fs.predicted_display_time + fs.predicted_display_period
    ELSE fs.predicted_display_time

\* **bone_radius = joint.radius
\* (variant: the radius is written only with a valid position)
MergeRadiusIfLocated(rec, joint) ==
  IF POSITION_VALID \in joint.location_flags
    THEN [rec EXCEPT !.radius = joint.radius]
    ELSE rec
MergeRadius(rec, joint) == [rec EXCEPT !.radius = joint.radius]

\* the two velocity branches
\* (variant: an invalid velocity keeps the earlier value)
MergeVelocityKeepStale(rec, joint_vel) ==
  [rec EXCEPT
     !.vel.linear = IF LINEAR_VALID \in joint_vel.velocity_flags
                      THEN ToVec3(joint_vel.linear_velocity)
                      ELSE @,
     !.vel.angular = IF ANGULAR_VALID \in joint_vel.velocity_flags
                       THEN ToVec3(joint_vel.angular_velocity)
                       ELSE @]
MergeVelocity(rec, joint_vel) ==
  [rec EXCEPT
     !.vel.linear = IF LINEAR_VALID \in joint_vel.velocity_flags
                      THEN ToVec3(joint_vel.linear_velocity)
                      ELSE Vec3ZERO,
     !.vel.angular = IF ANGULAR_VALID \in joint_vel.velocity_flags
                       THEN ToVec3(joint_vel.angular_velocity)
                       ELSE Vec3ZERO]

\* the two pose branches, written component by component in the source
\* (variant: an invalid pose field is reset to its default)
MergePoseZeroInvalid(rec, joint) ==
  [rec EXCEPT
     !.translation = IF POSITION_VALID \in joint.location_flags
                       THEN joint.pose.position ELSE Vec3ZERO,
     !.rotation = IF ORIENTATION_VALID \in joint.location_flags
                    THEN joint.pose.orientation ELSE QuatIDENTITY]
MergePose(rec, joint) ==
  [rec EXCEPT
     !.translation = IF POSITION_VALID \in joint.location_flags
                       THEN <<joint.pose.position[1], joint.pose.position[2],
                              joint.pose.position[3]>>
                       ELSE @,
     !.rotation = IF ORIENTATION_VALID \in joint.location_flags
                    THEN <<joint.pose.orientation[1], joint.pose.orientation[2],
                           joint.pose.orientation[3], joint.pose.orientation[4]>>
                    ELSE @]

\* The body of the loop over bone_entities.
MergeBone(rec, joint, joint_vel) ==
  MergePose(MergeVelocity(MergeRadius(rec, joint), joint_vel), joint)

Range(seq) == {seq[i] : i \in 1..Len(seq)}

\* bone_query.get_many_mut(hand_entities.0): Ok only if every entity of the
\* array exists and carries the queried components.
GetManyMutOk(w, ids) == \A i \in 1..Len(ids) : w[ids[i]].alive

MergeEntities(w, tr, res, t, ids) ==
  [e \in EntityIds |->
     IF e \in ids
       THEN MergeBone(w[e],
                      JointLocation(tr.hand, w[e].bone, t, res.masks[w[e].bone]),
                      JointVelocity(tr.hand, w[e].bone, t, res.masks[w[e].bone]))
       ELSE w[e]]

\* One iteration of the loop over tracker_query: every arm other than
\* Ok(Some(v)) continues, and so does a failed get_many_mut.
\* (variants: the entities that exist are merged although one is missing;
\* a hand without samples has its fused velocities reset)
LocateHandPartial(w, tr, res, t) ==
  IF res.kind # "ok"
    THEN w
    ELSE MergeEntities(w, tr, res, t, {e \in Range(tr.bones) : w[e].alive})
LocateHandResetOnSkip(w, tr, res, t) ==
  IF res.kind # "ok"
    THEN [e \in EntityIds |->
            IF e \in Range(tr.bones) /\ w[e].alive
              THEN [w[e] EXCEPT !.vel = XrVelocityDefault] ELSE w[e]]
    ELSE IF ~GetManyMutOk(w, tr.bones) THEN w
    ELSE MergeEntities(w, tr, res, t, Range(tr.bones))
LocateHand(w, tr, res, t) ==
  IF res.kind # "ok" THEN w
  ELSE IF ~GetManyMutOk(w, tr.bones) THEN w
  ELSE MergeEntities(w, tr, res, t, Range(tr.bones))

\* The loop over tracker_query, in the iteration order `order`.
RECURSIVE LocateAll(_, _, _, _, _)
LocateAll(w, trs, order, res, t) ==
  IF order = << >> THEN w
  ELSE LocateAll(LocateHand(w, trs[Head(order)], res[Head(order)], t),
                 trs, Tail(order), res, t)

\* ------------------------------------------------------------ transfer_vels
\* (variant: the angular velocity is not copied)
TransferBoneLinearOnly(rec) == [rec EXCEPT !.phys.linear = rec.vel.linear]
TransferBone(rec) ==
  [rec EXCEPT !.phys.linear = rec.vel.linear, !.phys.angular = rec.vel.angular]

\* Query<(&XrVelocity, &mut LinearVelocity, &mut AngularVelocity)>
TransferVelsOn(w) ==
  [e \in EntityIds |->
     IF w[e].alive /\ w[e].phys.has THEN TransferBone(w[e]) ELSE w[e]]

\* ------------------------------------------------------- spawn / clean up
\* spawn_hand_bones(&mut cmds, (CustomHandBone, <hand>, XrVelocity::default()))
FreshBone(h, b) ==
  [alive |-> TRUE, custom |-> TRUE, hand |-> h, bone |-> b, radius |-> 0,
   translation |-> Vec3ZERO, rotation |-> QuatIDENTITY,
   vel |-> XrVelocityDefault, phys |-> NoPhys]
BoneIds(h, g) == [b \in Bones |-> <<h, b, g>>]

SpawnBoth(trs, w, g) ==
  [trackers |-> [id \in TrackerIds |->
                   IF id[2] = g
                     THEN [present |-> TRUE, hand |-> id[1],
                           bones |-> BoneIds(id[1], g)]
                     ELSE trs[id]],
   world |-> [e \in EntityIds |->
                IF e[3] = g THEN FreshBone(e[1], e[2]) ELSE w[e]]]
\* (variant part: the left hand alone)
SpawnLeftOnly(trs, w, g) ==
  [trackers |-> [id \in TrackerIds |->
                   IF id = <<"left", g>>
                     THEN [present |-> TRUE, hand |-> "left",
                           bones |-> BoneIds("left", g)]
                     ELSE trs[id]],
   world |-> [e \in EntityIds |->
                IF e[3] = g /\ e[1] = "left" THEN FreshBone(e[1], e[2]) ELSE w[e]]]

\* spawn_custom_hands: roots is the number of XrTrackingRoot entities,
\* left / right whether create_hand_tracker succeeded for that hand.
\* (variant: a failure of the right tracker leaves the left hand spawned)
SpawnCustomHandsPartial(trs, w, g, roots, left, right) ==
  IF roots # 1 THEN [trackers |-> trs, world |-> w]
  ELSE IF ~left THEN [trackers |-> trs, world |-> w]
  ELSE IF ~right THEN SpawnLeftOnly(trs, w, g)
  ELSE SpawnBoth(trs, w, g)
SpawnCustomHands(trs, w, g, roots, left, right) ==
  IF roots # 1 THEN [trackers |-> trs, world |-> w]
  ELSE IF ~left THEN [trackers |-> trs, world |-> w]
  ELSE IF ~right THEN [trackers |-> trs, world |-> w]
  ELSE SpawnBoth(trs, w, g)

\* clean_up_custom_hands: Or<(With<CustomHandTracker>, With<CustomHandBone>)>
\* (variant: only the trackers are despawned)
CleanUpTrackersOnly(trs, w) ==
  [trackers |-> [id \in TrackerIds |-> NoTracker], world |-> w]
CleanUpCustomHands(trs, w) ==
  [trackers |-> [id \in TrackerIds |-> NoTracker],
   world |-> [e \in EntityIds |-> IF w[e].custom THEN NoEntity ELSE w[e]]]

\* run_if(session_running)  (variant: no run condition)
AlwaysRun == TRUE
session_running == session = "running"

\* ------------------------------------------------------------------ state
Present(trs) == {id \in TrackerIds : trs[id].present}
Orders(S) == {o \in [1..Cardinality(S) -> S] : \A i, j \in DOMAIN o : o[i] = o[j] => i = j}

\* Nothing is spawned and no session exists.  The Pipelined resource is absent
\* here; InitMerge below draws it, the display time and the period.
Init ==
  /\ session = "none"
  /\ nsessions = 0
  /\ ticks = 0
  /\ pc = "idle"
  /\ pipelined = FALSE
  /\ frame_state = [predicted_display_time |-> 10, predicted_display_period |-> 3]
  /\ trackers = [id \in TrackerIds |-> NoTracker]
  /\ world = [e \in EntityIds |-> NoEntity]
  /\ pre = [e \in EntityIds |-> NoEntity]
  /\ result = [id \in TrackerIds |-> NotQueried]
  /\ queried = [id \in TrackerIds |-> {}]
  /\ spawned = [roots |-> 0, left |-> FALSE, right |-> FALSE]

\* ---------------------------------------------------- session life cycle
\* The XrCreateSession schedule: spawn_custom_hands runs after
\* create_xr_session, its commands are applied when the schedule ends.
CreateSession ==
  /\ pc = "idle"
  /\ session = "none"
  /\ nsessions < MaxSessions
  /\ \E roots \in 0..2, left \in BOOLEAN, right \in BOOLEAN :
       LET r == SpawnCustomHands(trackers, world, nsessions + 1, roots, left, right)
       IN /\ trackers' = r.trackers
          /\ world' = r.world
          /\ spawned' = [roots |-> roots, left |-> left, right |-> right]
  /\ session' = "ready"
  /\ nsessions' = nsessions + 1
  /\ UNCHANGED <<ticks, pc, pipelined, frame_state, pre, result, queried>>

\* The runtime begins / ends the session: session_running changes.
BeginSession ==
  /\ pc = "idle"
  /\ session = "ready"
  /\ session' = "running"
  /\ UNCHANGED <<nsessions, ticks, pc, pipelined, frame_state, trackers, world, pre,
                 result, queried, spawned>>

EndSession ==
  /\ pc = "idle"
  /\ session = "running"
  /\ session' = "ready"
  /\ UNCHANGED <<nsessions, ticks, pc, pipelined, frame_state, trackers, world, pre,
                 result, queried, spawned>>

\* The XrDestroySession schedule: clean_up_custom_hands.
DestroySession ==
  /\ pc = "idle"
  /\ session = "ready"
  /\ LET r == CleanUpCustomHands(trackers, world)
     IN trackers' = r.trackers /\ world' = r.world
  /\ session' = "none"
  /\ UNCHANGED <<nsessions, ticks, pc, pipelined, frame_state, pre, result, queried,
                 spawned>>

\* -------------------------------------------------------------- the frame
\* A new frame: the frame state advances by one period and PreUpdate begins.
BeginFrame ==
  /\ pc = "idle"
  /\ ticks < MaxTicks
  /\ ticks' = ticks + 1
  /\ frame_state' =
       [frame_state EXCEPT !.predicted_display_time =
          @ + frame_state.predicted_display_period]
  /\ pre' = world
  /\ result' = [id \in TrackerIds |-> NotQueried]
  /\ queried' = [id \in TrackerIds |-> {}]
  /\ pc' = "frame"
  /\ UNCHANGED <<session, nsessions, pipelined, trackers, world, spawned>>

\* The run condition is false: neither system of the chain runs.
PreUpdateSkipped ==
  /\ pc = "frame"
  /\ ~session_running
  /\ pc' = "skipped"
  /\ UNCHANGED <<session, nsessions, ticks, pipelined, frame_state, trackers,
                 world, pre, result, queried, spawned>>

\* locate_hands_with_vel, the runtime answering the queries of the present
\* trackers by one of the functions of Answers.
LocateHandsFrom(Answers) ==
  /\ pc = "frame"
  /\ session_running
  /\ \E order \in Orders(Present(trackers)), r \in Answers :
       LET res == [id \in TrackerIds |->
                     IF id \in Present(trackers) THEN r[id] ELSE NotQueried]
           t == QueryTime(frame_state, pipelined)
       IN /\ world' = LocateAll(world, trackers, order, res, t)
          /\ result' = res
          /\ queried' = [id \in TrackerIds |->
                           IF id \in Present(trackers) THEN {t} ELSE {}]
  /\ pc' = "transfer"
  /\ UNCHANGED <<session, nsessions, ticks, pipelined, frame_state, trackers,
                 pre, spawned>>

\* Every hand gets any of the three non-answers or a sample with one of the
\* session's flag patterns.
LocateHandsWithVel ==
  LocateHandsFrom([Present(trackers) -> Skips \cup Samples(SessionMasks)])

\* One hand gets a sample with any flags on any bone, the others get no data.
OneSampled ==
  {[id \in Present(trackers) |->
      IF id = i THEN [kind |-> "ok", masks |-> m]
                ELSE [kind |-> "none", masks |-> NoMasks]] :
     i \in Present(trackers), m \in AllMasks}
LocateHandsAnyFlags == LocateHandsFrom(OneSampled)

\* transfer_vels, chained after locate_hands_with_vel.
TransferVels ==
  /\ pc = "transfer"
  /\ world' = TransferVelsOn(world)
  /\ pc' = "done"
  /\ UNCHANGED <<session, nsessions, ticks, pipelined, frame_state, trackers,
                 pre, result, queried, spawned>>

\* The frame ends; what was observed of its PreUpdate is dropped.
EndFrame ==
  /\ pc \in {"done", "skipped"}
  /\ pre' = [e \in EntityIds |-> NoEntity]
  /\ result' = [id \in TrackerIds |-> NotQueried]
  /\ queried' = [id \in TrackerIds |-> {}]
  /\ pc' = "idle"
  /\ UNCHANGED <<session, nsessions, ticks, pipelined, frame_state, trackers,
                 world, spawned>>

\* ------------------------------------------- the rest of the application
\* The application gives the freshly spawned bones of one hand rigid-body
\* velocity components (LinearVelocity, AngularVelocity).
AttachPhysics(h) ==
  /\ pc = "idle"
  /\ \E e \in EntityIds : world[e] = FreshBone(h, e[2])
  /\ world' = [e \in EntityIds |->
                 IF world[e] = FreshBone(h, e[2])
                   THEN [world[e] EXCEPT !.phys =
                           [has |-> TRUE, linear |-> Vec3ZERO, angular |-> Vec3ZERO]]
                   ELSE world[e]]
  /\ UNCHANGED <<session, nsessions, ticks, pc, pipelined, frame_state, trackers,
                 pre, result, queried, spawned>>

\* The physics engine's own step changes the velocities of the bodies.
PhysicsStep ==
  /\ pc = "idle"
  /\ \E e \in EntityIds : world[e].alive /\ world[e].phys.has
  /\ world' = [e \in EntityIds |->
                 IF world[e].alive /\ world[e].phys.has
                   THEN [world[e] EXCEPT !.phys.linear = <<7, 7, 7>>,
                                         !.phys.angular = <<8, 8, 8>>]
                   ELSE world[e]]
  /\ UNCHANGED <<session, nsessions, ticks, pc, pipelined, frame_state, trackers,
                 pre, result, queried, spawned>>

\* Some other system despawns the last bone entity of one hand of a complete
\* pair of hands.
DespawnBone(e) ==
  /\ pc = "idle"
  /\ e[2] = NumBones
  /\ \A h \in Hands, b \in Bones : world[<<h, b, e[3]>>].alive
  /\ world' = [world EXCEPT ![e] = NoEntity]
  /\ UNCHANGED <<session, nsessions, ticks, pc, pipelined, frame_state, trackers,
                 pre, result, queried, spawned>>

Next ==
  \/ CreateSession
  \/ BeginSession
  \/ EndSession
  \/ DestroySession
  \/ BeginFrame
  \/ PreUpdateSkipped
  \/ LocateHandsWithVel
  \/ TransferVels
  \/ EndFrame
  \/ \E h \in Hands : AttachPhysics(h)
  \/ PhysicsStep
  \/ \E e \in EntityIds : DespawnBone(e)

Spec == Init /\ [][Next]_vars

\* -------------------------------------------- one PreUpdate, every input
\* A running session in the middle of a frame: the hands are freshly spawned,
\* or were located before (at time 5, all flags valid, with rigid-body
\* velocities attached and transferred), or were located before and have
\* since lost their last left bone.
SpawnedOnce ==
  SpawnBoth([id \in TrackerIds |-> NoTracker], [e \in EntityIds |-> NoEntity], 1)
LocatedOnce ==
  LET ans == [id \in TrackerIds |->
                IF SpawnedOnce.trackers[id].present
                  THEN [kind |-> "ok", masks |-> AllValid] ELSE NotQueried]
      w1 == [e \in EntityIds |->
               IF SpawnedOnce.world[e].alive
                 THEN [SpawnedOnce.world[e] EXCEPT !.phys.has = TRUE]
                 ELSE SpawnedOnce.world[e]]
  IN TransferVelsOn(LocateAll(w1, SpawnedOnce.trackers,
                              <<<<"left", 1>>, <<"right", 1>>>>, ans, 5))
LocatedThenDespawned ==
  [LocatedOnce EXCEPT ![<<"left", NumBones, 1>>] = NoEntity]
Times == {10, 20}
Periods == {2, 3}

InitMerge ==
  /\ session = "running"
  /\ nsessions = 1
  /\ ticks = 1
  /\ pc = "frame"
  /\ pipelined \in BOOLEAN
  /\ frame_state \in [predicted_display_time : Times, predicted_display_period : Periods]
  /\ trackers = SpawnedOnce.trackers
  /\ world \in {SpawnedOnce.world, LocatedOnce, LocatedThenDespawned}
  /\ pre = world
  /\ result = [id \in TrackerIds |-> NotQueried]
  /\ queried = [id \in TrackerIds |-> {}]
  /\ spawned = [roots |-> 1, left |-> TRUE, right |-> TRUE]

NextMerge ==
  \/ LocateHandsAnyFlags
  \/ TransferVels

SpecMerge == InitMerge /\ [][NextMerge]_vars

\* ------------------------------------------------------------ properties
\* The state right after locate_hands_with_vel, and after transfer_vels.
AfterLocate == pc \in {"transfer", "done"}
\* The tracker's query returned samples this tick.
Sampled(id) == trackers[id].present /\ result[id].kind = "ok"
\* Every bone entity of the tracker existed when the tick began.
Resolved(id) == \A i \in 1..Len(trackers[id].bones) : pre[trackers[id].bones[i]].alive
BonesOf(id) == Range(trackers[id].bones)
AskedAt(id) == CHOOSE t \in queried[id] : TRUE
\* The samples the runtime returned for entity e of tracker id.
SampleLoc(id, e) ==
  JointLocation(trackers[id].hand, pre[e].bone, AskedAt(id),
                result[id].masks[pre[e].bone])
SampleVel(id, e) ==
  JointVelocity(trackers[id].hand, pre[e].bone, AskedAt(id),
                result[id].masks[pre[e].bone])
\* The fields of a bone the merge may write.
BoneState(rec) ==
  [alive |-> rec.alive, radius |-> rec.radius, translation |-> rec.translation,
   rotation |-> rec.rotation, vel |-> rec.vel]

\* C1: for every merged bone, velocity.linear is the sample's linear velocity
\* if LINEAR_VALID is set and the zero vector otherwise, and velocity.angular
\* is the sample's angular velocity if ANGULAR_VALID is set and the zero
\* vector otherwise, whatever the values were before the merge.
C1_VelocityFromSampleOrZero ==
  AfterLocate =>
    \A id \in TrackerIds :
      (Sampled(id) /\ Resolved(id)) =>
        \A e \in BonesOf(id) :
          /\ world[e].vel.linear =
               IF LINEAR_VALID \in SampleVel(id, e).velocity_flags
                 THEN SampleVel(id, e).linear_velocity ELSE <<0, 0, 0>>
          /\ world[e].vel.angular =
               IF ANGULAR_VALID \in SampleVel(id, e).velocity_flags
                 THEN SampleVel(id, e).angular_velocity ELSE <<0, 0, 0>>

\* A merged bone whose stale linear velocity was zeroed while its angular
\* velocity was taken from the sample.
C1_Witness ==
  /\ AfterLocate
  /\ \E id \in TrackerIds :
       /\ Sampled(id) /\ Resolved(id)
       /\ \E e \in BonesOf(id) :
            /\ SampleVel(id, e).velocity_flags = {ANGULAR_VALID}
            /\ pre[e].vel.linear # <<0, 0, 0>>
            /\ world[e].vel.linear = <<0, 0, 0>>
            /\ world[e].vel.angular = SampleVel(id, e).angular_velocity
            /\ world[e].vel.angular # pre[e].vel.angular

\* C2: for every merged bone, the position is the sample's if POSITION_VALID
\* is set and the position before the merge otherwise, and the orientation is
\* the sample's if ORIENTATION_VALID is set and the orientation before the
\* merge otherwise, each flag deciding its own field only.
C2_PosePreservedWhenInvalid ==
  AfterLocate =>
    \A id \in TrackerIds :
      (Sampled(id) /\ Resolved(id)) =>
        \A e \in BonesOf(id) :
          /\ world[e].translation =
               IF POSITION_VALID \in SampleLoc(id, e).location_flags
                 THEN SampleLoc(id, e).pose.position ELSE pre[e].translation
          /\ world[e].rotation =
               IF ORIENTATION_VALID \in SampleLoc(id, e).location_flags
                 THEN SampleLoc(id, e).pose.orientation ELSE pre[e].rotation

\* A merged bone whose position was overwritten while its earlier, non-default
\* orientation was preserved against a different sample orientation.
C2_Witness ==
  /\ AfterLocate
  /\ \E id \in TrackerIds :
       /\ Sampled(id) /\ Resolved(id)
       /\ \E e \in BonesOf(id) :
            /\ SampleLoc(id, e).location_flags = {POSITION_VALID}
            /\ world[e].translation = SampleLoc(id, e).pose.position
            /\ world[e].translation # pre[e].translation
            /\ world[e].rotation = pre[e].rotation
            /\ pre[e].rotation # <<0, 0, 0, 1>>
            /\ pre[e].rotation # SampleLoc(id, e).pose.orientation

\* C3 (amended): whenever the query of a hand returns samples and the lookup
\* of that hand's bone entities succeeds, each bone's radius equals the
\* sample's radius after the merge, whatever the four validity flags are.
C3_RadiusFromSampleWhenResolved ==
  AfterLocate =>
    \A id \in TrackerIds :
      (Sampled(id) /\ Resolved(id)) =>
        \A e \in BonesOf(id) : world[e].radius = SampleLoc(id, e).radius

\* A merged bone with no flag set whose radius changed to the sample's.
C3_Witness ==
  /\ AfterLocate
  /\ \E id \in TrackerIds :
       /\ Sampled(id) /\ Resolved(id)
       /\ \E e \in BonesOf(id) :
            /\ result[id].masks[pre[e].bone] = {}
            /\ world[e].radius = SampleLoc(id, e).radius
            /\ world[e].radius # pre[e].radius

\* C3 as stated: whenever the query of a hand returns samples, each existing
\* bone's radius of that hand equals the sample's radius after the merge.
C3_RadiusFromSampleAlways ==
  AfterLocate =>
    \A id \in TrackerIds :
      Sampled(id) =>
        \A e \in BonesOf(id) :
          world[e].alive => world[e].radius = SampleLoc(id, e).radius

\* C4: the timestamp of every joint query of a tick is the predicted display
\* time when the Pipelined resource is absent and the predicted display time
\* plus the predicted display period when it is present.
C4_QueryTimestamp ==
  AfterLocate =>
    \A id \in TrackerIds :
      trackers[id].present =>
        queried[id] =
          {IF pipelined
             THEN frame_state.predicted_display_time
                    + frame_state.predicted_display_period
             ELSE frame_state.predicted_display_time}

\* Both hands were queried in pipelined mode, one period ahead.
C4_Witness ==
  /\ AfterLocate
  /\ pipelined
  /\ frame_state.predicted_display_time = 20
  /\ frame_state.predicted_display_period = 3
  /\ queried[<<"left", 1>>] = {23}
  /\ queried[<<"right", 1>>] = {23}

\* C5: when locate_hands_with_vel runs, every present tracker is queried and
\* stays present, and a tracker whose query returned no data, the missing
\* extension error or any other error leaves every bone of its hand exactly
\* as it was; so the tick goes on and the hand is queried again next tick.
C5_SkipLeavesHandUntouched ==
  [][(pc = "frame" /\ pc' = "transfer") =>
       /\ trackers' = trackers
       /\ \A id \in Present(trackers) :
            /\ queried'[id] # {}
            /\ result'[id].kind \in SkipKinds =>
                 \A e \in Range(trackers[id].bones) : world'[e] = world[e]]_vars

\* Second tick: a hand located earlier gets the missing-extension error while
\* the other hand is located, and its earlier state is still there.
C5_Witness ==
  /\ pc = "transfer"
  /\ ticks = 2
  /\ \E id \in Present(trackers) :
       /\ result[id].kind = "err_ext"
       /\ queried[id] # {}
       /\ \E e \in BonesOf(id) :
            world[e].alive /\ world[e].radius # 0 /\ world[e] = pre[e]
       /\ \E other \in Present(trackers) : other # id /\ result[other].kind = "ok"

\* What the merge of section 4.3 makes of entity e of tracker id this tick:
\* the sample's fields where valid, the earlier pose or zero velocity where
\* not, and the earlier state when the hand was skipped.
ExpectedBone(id, e) ==
  IF Sampled(id) /\ Resolved(id)
    THEN [alive |-> TRUE,
          radius |-> SampleLoc(id, e).radius,
          translation |->
            IF POSITION_VALID \in SampleLoc(id, e).location_flags
              THEN SampleLoc(id, e).pose.position ELSE pre[e].translation,
          rotation |->
            IF ORIENTATION_VALID \in SampleLoc(id, e).location_flags
              THEN SampleLoc(id, e).pose.orientation ELSE pre[e].rotation,
          vel |->
            [linear |->
               IF LINEAR_VALID \in SampleVel(id, e).velocity_flags
                 THEN SampleVel(id, e).linear_velocity ELSE <<0, 0, 0>>,
             angular |->
               IF ANGULAR_VALID \in SampleVel(id, e).velocity_flags
                 THEN SampleVel(id, e).angular_velocity ELSE <<0, 0, 0>>]]
    ELSE BoneState(pre[e])

\* C6: when the lookup of hand A's bone entities fails, no bone of hand A is
\* changed, not even those that exist, and every bone of any other hand B is
\* what B's own sample and B's own earlier state make it.
C6_LookupFailureIsolated ==
  AfterLocate =>
    \A a \in Present(trackers) :
      (Sampled(a) /\ ~Resolved(a)) =>
        /\ \A e \in BonesOf(a) : BoneState(world[e]) = BoneState(pre[e])
        /\ \A b \in Present(trackers) \ {a} :
             \A e \in BonesOf(b) : BoneState(world[e]) = ExpectedBone(b, e)

\* Hand A was sampled but has lost a bone, its remaining bones are unchanged,
\* and hand B was merged.
C6_Witness ==
  /\ pc = "transfer"
  /\ \E a \in Present(trackers) :
       /\ Sampled(a) /\ ~Resolved(a)
       /\ \E e \in BonesOf(a) : world[e].alive /\ world[e] = pre[e]
       /\ \E b \in Present(trackers) \ {a} :
            /\ Sampled(b) /\ Resolved(b)
            /\ \E e \in BonesOf(b) : world[e] # pre[e]

\* C7: at the end of a tick every existing bone with rigid-body velocities has
\* them equal to its fused velocity, and that fused velocity is the one this
\* tick's merge left: the sample's (or zero) for a merged hand, the earlier
\* one for a skipped hand.
C7_TransferAfterMerge ==
  pc = "done" =>
    /\ \A e \in EntityIds :
         (world[e].alive /\ world[e].phys.has) =>
           /\ world[e].phys.linear = world[e].vel.linear
           /\ world[e].phys.angular = world[e].vel.angular
    /\ \A id \in Present(trackers) :
         \A e \in BonesOf(id) :
           world[e].alive => world[e].vel = ExpectedBone(id, e).vel

\* End of a tick without data for a hand whose rigid-body velocities the
\* physics step had changed: the earlier fused velocity is applied again.
C7_Witness ==
  /\ pc = "done"
  /\ \E id \in Present(trackers) :
       /\ result[id].kind = "none"
       /\ \E e \in BonesOf(id) :
            /\ world[e].alive /\ world[e].phys.has
            /\ pre[e].phys.linear = <<7, 7, 7>>
            /\ world[e].vel.linear # <<0, 0, 0>>
            /\ world[e].vel.angular # <<0, 0, 0>>
            /\ world[e].phys.linear = world[e].vel.linear
            /\ world[e].phys.angular = world[e].vel.angular

\* C8: a PreUpdate that begins while the session is not running ends with
\* neither system run: no bone and no rigid-body velocity is changed and no
\* joint query is issued.
C8_GatedBySessionRunning ==
  [][(pc = "frame" /\ session # "running") =>
       (pc' = "skipped" /\ world' = world /\ queried' = queried
          /\ result' = result)]_vars

\* A skipped PreUpdate although the hands exist, one of them with rigid-body
\* velocities that differ from its fused velocity.
C8_Witness ==
  /\ pc = "skipped"
  /\ Present(trackers) # {}
  /\ \A id \in TrackerIds : queried[id] = {}
  /\ \E e \in EntityIds :
       world[e].alive /\ world[e].phys.has /\ world[e].phys.linear # world[e].vel.linear

\* C9: whenever no session exists (before the first one and after every
\* destroyed one) no custom tracker entity and no custom bone entity exists.
C9_NothingLeftAfterSessionEnd ==
  session = "none" =>
    /\ Present(trackers) = {}
    /\ \A e \in EntityIds : ~world[e].alive

\* The second session, whose spawn succeeded, has been destroyed.
C9_Witness ==
  /\ session = "none"
  /\ nsessions = 2
  /\ spawned = [roots |-> 1, left |-> TRUE, right |-> TRUE]
  /\ Present(trackers) = {}

\* C10: spawn_custom_hands changes nothing unless there is exactly one
\* tracking root and both hand trackers were created; then it adds exactly one
\* left and one right tracker, each with its own array of NumBones new bone
\* entities of its hand, one per bone, with zero fused velocity.
C10_SpawnAllOrNothing ==
  [][nsessions' # nsessions =>
       IF spawned'.roots = 1 /\ spawned'.left /\ spawned'.right
         THEN /\ \A id \in TrackerIds :
                   IF id[2] = nsessions'
                     THEN /\ ~trackers[id].present
                          /\ trackers'[id].present
                          /\ trackers'[id].hand = id[1]
                          /\ Len(trackers'[id].bones) = NumBones
                          /\ \A i \in 1..NumBones :
                               LET e == trackers'[id].bones[i]
                               IN /\ ~world[e].alive
                                  /\ world'[e].alive
                                  /\ world'[e].custom
                                  /\ world'[e].hand = id[1]
                                  /\ world'[e].bone = i
                                  /\ world'[e].vel =
                                       [linear |-> <<0, 0, 0>>, angular |-> <<0, 0, 0>>]
                     ELSE trackers'[id] = trackers[id]
              /\ Range(trackers'[<<"left", nsessions'>>].bones)
                   \cap Range(trackers'[<<"right", nsessions'>>].bones) = {}
              /\ \A e \in EntityIds :
                   (\A id \in TrackerIds :
                      id[2] = nsessions' => e \notin Range(trackers'[id].bones))
                     => world'[e] = world[e]
         ELSE trackers' = trackers /\ world' = world]_vars

\* The right tracker could not be created after the left one was: nothing
\* was spawned.
C10_Witness ==
  /\ session = "ready"
  /\ spawned = [roots |-> 1, left |-> TRUE, right |-> FALSE]
  /\ Present(trackers) = {}
  /\ \A e \in EntityIds : ~world[e].alive
====
